---- MODULE Spec2Model ----
(***************************************************************************)
(* Model of the schema-flexible extraction engine of the reel extractor:   *)
(* the schema sanitizer (_resolve_schema_refs, _clean_schema_for_gemini),  *)
(* the field reconciler, the strict constructors of the category models,   *)
(* the fallback formatter (_format_generic_data) and the orchestrator      *)
(* (_extract_structured_data) of src/src/services/gemini_analyzer.py, and  *)
(* of the services around it: the pipeline of src/main.py with category    *)
(* detection and storage, the result registry of src/src/api/reels.py and  *)
(* the plan generation of src/src/api/agent_actions.py.                    *)
(***************************************************************************)
EXTENDS Integers, Sequences, FiniteSets, TLC

VARIABLES
    \* ---- schema sanitizer ----
    spc,          \* position of the sanitizing run
    descriptor,   \* the schema descriptor handed to the sanitizer
    resolved,     \* result of _resolve_schema_refs
    cleaned,      \* result of _clean_schema_for_gemini on resolved
    recleaned,    \* result of a second _clean_schema_for_gemini pass
    \* ---- one _extract_structured_data call ----
    pc,             \* position of the call
    visited,        \* the positions the call has passed through, in order
    model_class,    \* the target strict schema
    response_text,  \* response.text, as a sequence of tokens
    gemini_data,    \* the parsed response (changed in place by the reconciler)
    raw_response,   \* the parsed response as json.loads returned it
    mapped_data,    \* the candidate mapping of the reconciler
    extra_context,  \* the keys that match no declared field
    formatter_runs, \* number of _format_generic_data calls
    result,         \* the (instance, error) pair returned
    \* ---- one ReelExtractor.extract call ----
    ppc,                \* position of the call
    source_type,        \* "url" or "file"
    preferred_category, \* the category hint, "" for None
    backend_accepts,    \* whether the storage backend accepts an add request
    segmentation,       \* what segment_video returned: errors and keyframes
    answer,             \* what the backend did with the detection request
    generate_calls,     \* generate_content calls made by detect_category
    extractor_calls,    \* category extractors invoked by analyze_video
    notifications,      \* the (stage, progress) pairs handed to progress_callback
    detected,           \* the (category, error) pair of detect_category
    analysis,           \* the tuple analyze_video returned
    record,             \* the record object: its kind and its keyframes
    storage,            \* the (result, error) pair of store_extraction
    memories,           \* add requests the storage backend has received
    extract_result,     \* the result mapping of extract
    \* ---- the result registry and the storage backend behind it ----
    REELS,      \* the registry: entries by reel id or document id
    documents,  \* the documents of the storage backend: the kind of record stored
    submitted,  \* number of background extractions that have run
    TASKS,      \* the task records of reels.py, by task id
    jobs,       \* the background job of each task: its position and what is left of it
    \* ---- one _call_gemini_for_plan call ----
    plan_pc,      \* position of the call
    allow_pro,    \* the argument of the running _get_gemini_model call
    candidate,    \* index of the next model name it tries
    last_error,   \* the failure of the last smoke test
    attempts,     \* the requests sent to the backend, in order
    plan_status   \* 0, or the status of the HTTPException raised

sanitizer_vars == <<spc, descriptor, resolved, cleaned, recleaned>>

extractor_vars ==
    <<pc, visited, model_class, response_text, gemini_data, raw_response, mapped_data,
      extra_context, formatter_runs, result>>

pipeline_vars ==
    <<ppc, source_type, preferred_category, backend_accepts, segmentation, answer,
      generate_calls, extractor_calls, notifications, detected, analysis, record, storage,
      memories, extract_result>>

registry_vars == <<REELS, documents, submitted, TASKS, jobs>>

planner_vars == <<plan_pc, allow_pro, candidate, last_error, attempts, plan_status>>

service_vars == <<pipeline_vars, registry_vars, planner_vars>>

vars == <<sanitizer_vars, extractor_vars, service_vars>>

(***************************************************************************)
(* JSON values.  Every value is a record of the same shape, so that any    *)
(* two values can be compared:                                             *)
(*   k  kind: "null", "bool", "num", "str", "list", "obj"                  *)
(*   n  num: the number in tenths (15 is 1.5); bool: 0/1; str: its length  *)
(*   m  str: the length of its first line after strip()                    *)
(*   s  str: the text (of a sliced string: the text it is a prefix of)     *)
(*   l  list: the sequence of items                                        *)
(*   o  obj: the mapping from keys to values                               *)
(***************************************************************************)
NoKeys == [x \in {} |-> 0]

JNull == [k |-> "null", n |-> 0, m |-> 0, s |-> "", l |-> <<>>, o |-> NoKeys]

JBool(b) == [k |-> "bool", n |-> IF b THEN 1 ELSE 0, m |-> 0, s |-> "", l |-> <<>>, o |-> NoKeys]

JNum(tenths) == [k |-> "num", n |-> tenths, m |-> 0, s |-> "", l |-> <<>>, o |-> NoKeys]

JInt(i) == JNum(10 * i)

\* a string of len characters whose stripped first line has first characters
JString(text, len, first) ==
    [k |-> "str", n |-> len, m |-> first, s |-> text, l |-> <<>>, o |-> NoKeys]

\* a one-line string without surrounding blanks
JText(text) == JString(text, Len(text), Len(text))

JList(q) == [k |-> "list", n |-> 0, m |-> 0, s |-> "", l |-> q, o |-> NoKeys]

JObj(f) == [k |-> "obj", n |-> 0, m |-> 0, s |-> "", l |-> <<>>, o |-> f]

JEmpty == JObj(NoKeys)

\* Python truthiness: bool(v)
Truthy(v) ==
    CASE v.k = "null" -> FALSE
      [] v.k = "bool" -> v.n # 0
      [] v.k = "num"  -> v.n # 0
      [] v.k = "str"  -> v.n > 0
      [] v.k = "list" -> Len(v.l) > 0
      [] v.k = "obj"  -> DOMAIN v.o # {}
      [] OTHER        -> TRUE

Has(v, key) == v.k = "obj" /\ key \in DOMAIN v.o

\* the value under a path of keys, null where the path leaves the document
RECURSIVE At(_, _)
At(v, path) ==
    IF path = <<>> THEN v
    ELSE IF Has(v, Head(path)) THEN At(v.o[Head(path)], Tail(path))
    ELSE JNull

\* the mapping f without the keys of ks
Without(f, ks) == [x \in DOMAIN f \ ks |-> f[x]]

(***************************************************************************)
(* Reference pointers.  A pointer is a string of segments joined by "/";   *)
(* split("/") is the inverse of that join over the segments in use.        *)
(***************************************************************************)
MaxSegs == 3

PathSegs == {"#", "$defs", "defs", "Exercise", "Set", "Missing"}

RECURSIVE JoinSlash(_)
JoinSlash(q) ==
    IF Len(q) = 1 THEN q[1] ELSE q[1] \o "/" \o JoinSlash(Tail(q))

\* ref_path.split("/")
SplitSlash(text) ==
    CHOOSE q \in UNION {[1..len -> PathSegs] : len \in 1..MaxSegs} : JoinSlash(q) = text

\* ref_path.startswith("#/$defs/")
StartsWithDefs(text) ==
    LET q == SplitSlash(text)
    IN  Len(q) >= 3 /\ q[1] = "#" /\ q[2] = "$defs"

\* ref_path.split("/")[-1]
RefName(text) == LET q == SplitSlash(text) IN q[Len(q)]

(***************************************************************************)
(* _resolve_schema_refs(schema, defs): inline the definitions that $ref    *)
(* pointers name.  defs is the mapping of the definitions section.         *)
(***************************************************************************)
RECURSIVE _resolve_schema_refs(_, _)

\* the KeyError that indexing a mapping with a key it does not hold raises
KeyError == [k |-> "raise", n |-> 0, m |-> 0, s |-> "KeyError", l |-> <<>>, o |-> NoKeys]

\* defs[ref_name]
Definition(defs, ref_name) == IF ref_name \in DOMAIN defs THEN defs[ref_name] ELSE KeyError

\* a variant that takes every name for a defined one
DefinesAnything(defs, ref_name) == TRUE

\* ref_name in defs
Defines(defs, ref_name) == ref_name \in DOMAIN defs

\* a variant that inlines the definition as it stands
InlineAsIs(definition, defs) == definition

\* resolved = defs[ref_name].copy(); return self._resolve_schema_refs(resolved, defs)
Inline(definition, defs) == _resolve_schema_refs(definition, defs)

_resolve_schema_refs(schema, defs) ==
    IF schema.k = "obj" THEN
        IF "$ref" \in DOMAIN schema.o THEN
            LET ref_path == schema.o["$ref"].s
            IN  IF StartsWithDefs(ref_path) /\ Defines(defs, RefName(ref_path))
                THEN Inline(Definition(defs, RefName(ref_path)), defs)
                ELSE schema
        ELSE JObj([key \in DOMAIN schema.o |-> _resolve_schema_refs(schema.o[key], defs)])
    ELSE IF schema.k = "list" THEN
        JList([i \in 1..Len(schema.l) |-> _resolve_schema_refs(schema.l[i], defs)])
    ELSE schema

(***************************************************************************)
(* _clean_schema_for_gemini(schema): keep the allowlisted keywords only,   *)
(* then filter "required" by the properties that are left.                 *)
(***************************************************************************)
\* a variant of the allowlist that lets descriptive metadata through
supported_fields_and_description ==
    {"type", "properties", "items", "required", "enum", "description"}

supported_fields == {"type", "properties", "items", "required", "enum"}

\* req in container, for a mapping or a list
Contains(container, req) ==
    IF container.k = "obj" THEN req.k = "str" /\ req.s \in DOMAIN container.o
    ELSE container.k = "list" /\ \E i \in 1..Len(container.l) : container.l[i] = req

\* [req for req in required if req in properties]
RECURSIVE valid_required(_, _)
valid_required(required, properties) ==
    IF required = <<>> THEN <<>>
    ELSE (IF Contains(properties, Head(required)) THEN <<Head(required)>> ELSE <<>>)
         \o valid_required(Tail(required), properties)

\* a variant that looks the required names up in the properties before cleaning
SchemaProperties(src, first) == src["properties"]

\* cleaned["properties"], the map the required names are looked up in
SiblingProperties(src, first) == first["properties"]

\* the post-processing of "required" (the descriptors' "required" is a list of
\* strings, as pydantic emits it)
FilterRequired(src, first) ==
    IF "required" \in DOMAIN first /\ "properties" \in DOMAIN first
    THEN LET valid == valid_required(first["required"].l, SiblingProperties(src, first))
         IN  IF valid # <<>>
             THEN [first EXCEPT !["required"] = JList(valid)]
             ELSE Without(first, {"required"})
    ELSE first

RECURSIVE _clean_schema_for_gemini(_)
_clean_schema_for_gemini(schema) ==
    IF schema.k = "obj" THEN
        LET src == schema.o
            IsProps(key) == key = "properties" /\ src[key].k = "obj"
            IsReq(key) == key = "required" /\ src[key].k = "list"
            cleaned_props ==
                LET props == src["properties"].o
                IN  [p \in {q \in DOMAIN props : Truthy(_clean_schema_for_gemini(props[q]))}
                        |-> _clean_schema_for_gemini(props[p])]
            Value(key) ==
                IF IsProps(key) THEN JObj(cleaned_props)
                ELSE IF IsReq(key) THEN src[key]
                ELSE _clean_schema_for_gemini(src[key])
            Kept(key) ==
                IF IsProps(key) THEN DOMAIN cleaned_props # {}
                ELSE IF IsReq(key) THEN TRUE
                ELSE Value(key).k # "null" /\ Value(key) # JEmpty
            first == [key \in {x \in DOMAIN src \cap supported_fields : Kept(x)} |-> Value(key)]
        IN  JObj(FilterRequired(src, first))
    ELSE IF schema.k = "list" THEN
        JList([i \in 1..Len(schema.l) |-> _clean_schema_for_gemini(schema.l[i])])
    ELSE schema

(***************************************************************************)
(* The descriptors handed to the sanitizer: the shape pydantic emits for   *)
(* WorkoutRoutine (a top-level object, a definitions section with Exercise *)
(* and a nested definition Set, pointers into the section), with the       *)
(* property schemas, the required lists, the reference sites and the name  *)
(* of the definitions section varied.                                      *)
(***************************************************************************)
MaxRequired == 2

StringSchema ==
    JObj([type |-> JText("string"), description |-> JText("Name"), minLength |-> JInt(1)])

OptionalSchema ==
    JObj([anyOf |-> JList(<<JObj([type |-> JText("string")]), JObj([type |-> JText("null")])>>),
          default |-> JNull, title |-> JText("Title")])

EnumSchema ==
    JObj([type |-> JText("string"), enum |-> JList(<<JText("beginner"), JText("advanced")>>),
          title |-> JText("Level"), default |-> JText("beginner")])

IntegerSchema ==
    JObj([type |-> JText("integer"), minimum |-> JInt(1), format |-> JText("int32")])

LeafSchemas == {StringSchema, OptionalSchema, EnumSchema, IntegerSchema}

\* the pointer "#/<section>/<name>"
Pointer(section, name) == JObj("$ref" :> JText(JoinSlash(<<"#", section, name>>)))

ArrayOf(schema) ==
    JObj([type |-> JText("array"), items |-> schema, minItems |-> JInt(1),
          description |-> JText("List")])

\* the lists of at most MaxRequired of the names, in declaration order
RECURSIVE InOrder(_, _)
InOrder(names, chosen) ==
    IF names = <<>> THEN <<>>
    ELSE (IF Head(names) \in chosen THEN <<JText(Head(names))>> ELSE <<>>)
         \o InOrder(Tail(names), chosen)

RequiredLists(names) ==
    {InOrder(names, chosen) :
        chosen \in {c \in SUBSET {names[i] : i \in 1..Len(names)} : Cardinality(c) <= MaxRequired}}

ObjectSchema(title, properties, required) ==
    JObj([type |-> JText("object"), title |-> JText(title), description |-> JText("Doc"),
          properties |-> JObj(properties), required |-> JList(required)])

SetDefs ==
    {ObjectSchema("Set", [reps |-> leaf], <<JText("reps")>>) :
        leaf \in {IntegerSchema, OptionalSchema}}

ExerciseDefs(section) ==
    {ObjectSchema("Exercise", [name |-> name, sets |-> sets], required) :
        name \in {StringSchema, OptionalSchema},
        sets \in {IntegerSchema, OptionalSchema,
                  Pointer(section, "Set"), ArrayOf(Pointer(section, "Set"))},
        required \in RequiredLists(<<"name", "sets">>)}

\* a property whose pointer names a definition the section does not hold
DanglingProperties(section) == {NoKeys, [warmup |-> Pointer(section, "Missing")]}

DescriptorsOf(section) ==
    {JObj(ObjectSchema("WorkoutRoutine",
                       [exercises |-> site, title |-> title, difficulty_level |-> EnumSchema]
                          @@ dangling,
                       required).o
          @@ (section :> JObj([Exercise |-> exercise, Set |-> set]))) :
        site \in {Pointer(section, "Exercise"), ArrayOf(Pointer(section, "Exercise"))},
        title \in {StringSchema, OptionalSchema},
        required \in RequiredLists(<<"exercises", "title", "difficulty_level">>),
        exercise \in ExerciseDefs(section),
        set \in SetDefs,
        dangling \in DanglingProperties(section)}

DefsSections == {"$defs", "defs"}

Descriptors == UNION {DescriptorsOf(section) : section \in DefsSections}

\* the definitions section of a descriptor, under either name
SectionOf(schema) == CHOOSE section \in DefsSections : section \in DOMAIN schema.o

(***************************************************************************)
(* A sanitizing run: resolve the references against the descriptor's       *)
(* definitions section, clean, and clean once more.  Cleaning also runs on *)
(* a descriptor whose references were not resolved.                        *)
(***************************************************************************)
\* None, for a record, a tuple member or a mapping entry
None == "None"

Pending == [category |-> None, error |-> None]

NoRecord == [kind |-> None, keyframes |-> <<>>]

PipelineIdle ==
    /\ ppc = "idle" /\ source_type = "" /\ preferred_category = "" /\ backend_accepts = FALSE
    /\ segmentation = [errors |-> <<>>, keyframes |-> <<>>]
    /\ answer = [kind |-> None, text |-> <<>>] /\ generate_calls = 0 /\ detected = Pending
    /\ extractor_calls = 0 /\ notifications = <<>>
    /\ analysis = <<>> /\ record = NoRecord /\ storage = [result |-> None, error |-> None]
    /\ memories = 0
    /\ extract_result = [success |-> FALSE, extraction |-> None, stored |-> FALSE, errors |-> <<>>]

RegistryIdle ==
    REELS = <<>> /\ documents = <<>> /\ submitted = 0 /\ TASKS = <<>> /\ jobs = <<>>

PlannerIdle ==
    /\ plan_pc = "idle" /\ allow_pro = TRUE /\ candidate = 1 /\ last_error = <<>>
    /\ attempts = <<>> /\ plan_status = 0

ServiceIdle == PipelineIdle /\ RegistryIdle /\ PlannerIdle

SanitizerIdle ==
    /\ spc = "idle" /\ descriptor = JNull /\ resolved = JNull
    /\ cleaned = JNull /\ recleaned = JNull

NoResult == [kind |-> "none", instance |-> JNull, error |-> ""]

ExtractorIdle ==
    /\ pc = "idle" /\ visited = <<>> /\ model_class = "" /\ response_text = <<>>
    /\ gemini_data = JNull /\ raw_response = JNull /\ mapped_data = JNull
    /\ extra_context = JNull /\ formatter_runs = 0 /\ result = NoResult

InitSanitizer ==
    /\ spc = "start"
    /\ descriptor \in Descriptors
    /\ resolved = JNull
    /\ cleaned = JNull
    /\ recleaned = JNull
    /\ ExtractorIdle
    /\ ServiceIdle

Resolve ==
    /\ spc = "start"
    /\ resolved' = _resolve_schema_refs(descriptor, descriptor.o[SectionOf(descriptor)].o)
    /\ spc' = "resolved"
    /\ UNCHANGED <<descriptor, cleaned, recleaned, extractor_vars, service_vars>>

Clean ==
    /\ spc = "resolved"
    /\ cleaned' = _clean_schema_for_gemini(resolved)
    /\ spc' = "cleaned"
    /\ UNCHANGED <<descriptor, resolved, recleaned, extractor_vars, service_vars>>

CleanUnresolved ==
    /\ spc = "start"
    /\ cleaned' = _clean_schema_for_gemini(descriptor)
    /\ spc' = "cleaned"
    /\ UNCHANGED <<descriptor, resolved, recleaned, extractor_vars, service_vars>>

CleanAgain ==
    /\ spc = "cleaned"
    /\ recleaned' = _clean_schema_for_gemini(cleaned)
    /\ spc' = "recleaned"
    /\ UNCHANGED <<descriptor, resolved, cleaned, extractor_vars, service_vars>>

NextSanitizer == Resolve \/ Clean \/ CleanUnresolved \/ CleanAgain

SpecSanitizer == InitSanitizer /\ [][NextSanitizer]_vars

(***************************************************************************)
(* Properties of the sanitizer.                                            *)
(***************************************************************************)
\* the schemas nested in a schema object: its properties and its items
SubSchemas(v) ==
    (IF Has(v, "properties") /\ v.o["properties"].k = "obj"
     THEN {v.o["properties"].o[p] : p \in DOMAIN v.o["properties"].o} ELSE {})
    \cup (IF Has(v, "items") THEN {v.o["items"]} ELSE {})

RECURSIVE RequiredPruned(_)
RequiredPruned(v) ==
    IF v.k = "obj" THEN
        /\ Has(v, "required") =>
              /\ Len(v.o["required"].l) > 0
              /\ \A i \in 1..Len(v.o["required"].l) :
                    /\ Has(v, "properties")
                    /\ v.o["required"].l[i].s \in DOMAIN v.o["properties"].o
        /\ \A sub \in SubSchemas(v) : RequiredPruned(sub)
    ELSE IF v.k = "list" THEN \A i \in 1..Len(v.l) : RequiredPruned(v.l[i])
    ELSE TRUE

\* C7: in the sanitized output every "required" list is non-empty and names only
\* fields present under the sibling "properties" map, also when no "properties"
\* map is left.
C7_RequiredPruned == spc = "cleaned" => RequiredPruned(cleaned)

RECURSIVE HasKeyAnywhere(_, _)
HasKeyAnywhere(v, key) ==
    IF v.k = "obj" THEN
        key \in DOMAIN v.o \/ \E x \in DOMAIN v.o : HasKeyAnywhere(v.o[x], key)
    ELSE IF v.k = "list" THEN \E i \in 1..Len(v.l) : HasKeyAnywhere(v.l[i], key)
    ELSE FALSE

NoPointerLeft(v) ==
    /\ ~HasKeyAnywhere(v, "$ref")
    /\ \A section \in DefsSections : ~HasKeyAnywhere(v, section)

\* a schema with structural content of its own or behind a pointer
HasStructure(schema) == Has(schema, "$ref") \/ Has(schema, "type")

\* out holds the structural keywords of schema, the pointers of schema followed
\* into defs
RECURSIVE HoldsStructure(_, _, _)
HoldsStructure(out, schema, defs) ==
    IF Has(schema, "$ref")
    THEN HoldsStructure(out, defs[RefName(schema.o["$ref"].s)], defs)
    ELSE /\ out.k = "obj"
         /\ \A key \in {"type", "enum"} \cap DOMAIN schema.o :
               Has(out, key) /\ out.o[key] = schema.o[key]
         /\ (Has(schema, "items") /\ HasStructure(schema.o["items"])) =>
               /\ Has(out, "items")
               /\ HoldsStructure(out.o["items"], schema.o["items"], defs)
         /\ Has(schema, "properties") =>
               \A p \in DOMAIN schema.o["properties"].o :
                  HasStructure(schema.o["properties"].o[p]) =>
                     /\ Has(out, "properties")
                     /\ p \in DOMAIN out.o["properties"].o
                     /\ HoldsStructure(out.o["properties"].o[p],
                                       schema.o["properties"].o[p], defs)

\* some pointer of v names a definition that defs does not hold
RECURSIVE Dangling(_, _)
Dangling(v, defs) ==
    IF Has(v, "$ref") THEN RefName(v.o["$ref"].s) \notin DOMAIN defs
    ELSE IF v.k = "obj" THEN \E x \in DOMAIN v.o : Dangling(v.o[x], defs)
    ELSE IF v.k = "list" THEN \E i \in 1..Len(v.l) : Dangling(v.l[i], defs)
    ELSE FALSE

WellFormed == ~Dangling(descriptor, descriptor.o[SectionOf(descriptor)].o)

Inlined ==
    /\ NoPointerLeft(cleaned)
    /\ HoldsStructure(cleaned, descriptor, descriptor.o[SectionOf(descriptor)].o)

\* C8 as claimed: after resolution and cleaning no pointer and no definitions
\* section is left and every reference site holds the structural keywords of the
\* definition it named, whichever the name of the definitions section
\* ("$defs" or, as in scenario B, "defs").
C8_InlinedAnySection == (spc = "cleaned" /\ resolved # JNull /\ WellFormed) => Inlined

\* C8 amended: the same for the pointers of the form "#/$defs/<name>".
C8_InlinedDollarDefs ==
    (spc = "cleaned" /\ resolved # JNull /\ SectionOf(descriptor) = "$defs" /\ WellFormed)
        => Inlined

\* a resolved and cleaned "$defs" descriptor whose Exercise definition, referenced
\* from the items of "exercises", itself refers to Set
C8_Witness ==
    /\ spc = "cleaned" /\ resolved # JNull /\ SectionOf(descriptor) = "$defs" /\ WellFormed
    /\ Has(At(descriptor, <<"properties", "exercises">>), "items")
    /\ Has(At(descriptor, <<"$defs", "Exercise", "properties", "sets">>), "$ref")
    /\ At(cleaned, <<"properties", "exercises", "items", "properties", "sets", "type">>)
          = JText("object")

\* C9: a second cleaning pass changes nothing.
C9_Idempotent == spc = "recleaned" => recleaned = cleaned

\* a twice-cleaned descriptor whose first pass stripped keywords, dropped a
\* property and filtered a required list
C9_Witness ==
    /\ spc = "recleaned"
    /\ cleaned # descriptor
    /\ Has(cleaned, "required")
    /\ Len(cleaned.o["required"].l) < Len(descriptor.o["required"].l)
    /\ Has(cleaned, "properties")
    /\ "title" \notin DOMAIN cleaned.o["properties"].o

RECURSIVE OnlyStructural(_)
OnlyStructural(v) ==
    IF v.k = "obj" THEN
        /\ DOMAIN v.o \subseteq {"type", "properties", "items", "required", "enum"}
        /\ \A sub \in SubSchemas(v) : OnlyStructural(sub)
    ELSE IF v.k = "list" THEN \A i \in 1..Len(v.l) : OnlyStructural(v.l[i])
    ELSE TRUE

CleanInput == IF resolved # JNull THEN resolved ELSE descriptor

\* every property name under a "properties" map of schema is under the
\* corresponding "properties" map of output, at every nesting level
RECURSIVE PropertiesKept(_, _)
PropertiesKept(schema, output) ==
    /\ (Has(schema, "properties") /\ schema.o["properties"].k = "obj") =>
          \A p \in DOMAIN schema.o["properties"].o :
             /\ Has(output, "properties")
             /\ p \in DOMAIN output.o["properties"].o
             /\ PropertiesKept(schema.o["properties"].o[p], output.o["properties"].o[p])
    /\ (Has(schema, "items") /\ Has(output, "items")) =>
          PropertiesKept(schema.o["items"], output.o["items"])

\* C30: sanitizing never removes a declared property: every property name
\* under a "properties" map of the input is present under the corresponding
\* "properties" map of the output, also when the property's own schema holds
\* only keywords outside the allowlist.
C30_PropertiesKept == spc = "cleaned" => PropertiesKept(CleanInput, cleaned)

\* an exception has been raised while v was computed
RECURSIVE Raised(_)
Raised(v) ==
    \/ v.k = "raise"
    \/ v.k = "obj" /\ \E x \in DOMAIN v.o : Raised(v.o[x])
    \/ v.k = "list" /\ \E i \in 1..Len(v.l) : Raised(v.l[i])

\* the descriptor without the properties named
WithoutProperties(schema, names) ==
    JObj([schema.o EXCEPT !["properties"] = JObj(Without(@.o, names))])

\* C11: on a descriptor with a pointer to a definition that does not exist,
\* resolution and cleaning return without error; the pointer stays as it is in
\* the resolved descriptor, and the rest is resolved and pruned as it is for the
\* same descriptor without the property that holds the pointer.
C11_DanglingPassesThrough ==
    LET defs == descriptor.o[SectionOf(descriptor)].o
        rest == WithoutProperties(descriptor, {"warmup"})
    IN  (resolved # JNull /\ Has(descriptor.o["properties"], "warmup")) =>
           /\ ~Raised(resolved)
           /\ At(resolved, <<"properties", "warmup">>) = At(descriptor, <<"properties", "warmup">>)
           /\ WithoutProperties(resolved, {"warmup"}) = _resolve_schema_refs(rest, defs)
           /\ spc = "cleaned" =>
                 /\ ~Raised(cleaned)
                 /\ cleaned = _clean_schema_for_gemini(_resolve_schema_refs(rest, defs))

\* a "$defs" descriptor with the dangling pointer, resolved and cleaned: the
\* reference to Exercise is inlined, the property with the dangling pointer is
\* gone
C11_Witness ==
    /\ spc = "cleaned" /\ resolved # JNull
    /\ SectionOf(descriptor) = "$defs"
    /\ ~WellFormed
    /\ At(resolved, <<"properties", "warmup", "$ref">>) = JText("#/$defs/Missing")
    /\ At(resolved, <<"properties", "exercises", "items", "type">>) = JText("object")
    /\ ~Has(At(cleaned, <<"properties">>), "warmup")
    /\ At(cleaned, <<"properties", "exercises", "items", "type">>) = JText("object")

(***************************************************************************)
(* The category schema registry: the declared fields of the pydantic       *)
(* models, as field descriptions                                           *)
(*   t     "str", "int", "float", "dict", "datetime", "literal", "list"    *)
(*   opt   Optional[...]: None is accepted                                 *)
(*   req   Field(...): the field has no default                            *)
(*   lo/hi the ge / le bound in tenths, <<>> when there is none            *)
(*   item  of a list: "str", "dict", "any" or the name of the item model   *)
(*   min   min_length of a list                                            *)
(*   lits  the values of a Literal                                         *)
(*   def   the default value                                               *)
(***************************************************************************)
Field(t) ==
    [t |-> t, opt |-> FALSE, req |-> FALSE, lo |-> <<>>, hi |-> <<>>, item |-> "",
     min |-> 0, lits |-> {}, def |-> JNull]

Optional(field) == [field EXCEPT !.opt = TRUE]

Required(field) == [field EXCEPT !.req = TRUE]

Ge(field, tenths) == [field EXCEPT !.lo = <<tenths>>]

Le(field, tenths) == [field EXCEPT !.hi = <<tenths>>]

Default(field, value) == [field EXCEPT !.def = value]

ListOf(item, min) == [Field("list") EXCEPT !.item = item, !.min = min]

Literal(lits, value) == [Field("literal") EXCEPT !.lits = lits, !.def = JText(value)]

OptStr == Optional(Field("str"))

OptInt(lo) == Ge(Optional(Field("int")), lo)

StrList == Default(ListOf("str", 0), JList(<<>>))

\* the envelope fields of BaseExtraction, with the subclass's category literal
BaseExtraction(category) ==
    [category |-> Literal({category}, category),
     title |-> OptStr,
     description |-> OptStr,
     source_url |-> OptStr,
     extracted_at |-> Default(Field("datetime"), JText("now")),
     keyframes |-> Optional(ListOf("any", 0)),
     confidence_score |-> Default(Le(Ge(Field("float"), 0), 10), JNum(0)),
     additional_context |-> Optional(Field("dict"))]

StrictClasses ==
    {"WorkoutRoutine", "RecipeCard", "TravelItinerary", "ProductCatalog",
     "TutorialSummary", "SongMetadata"}

\* model_class.model_fields, for the record models and their item models
model_fields(class) ==
    CASE class = "Exercise" ->
            [name |-> Required(Field("str")),
             sets |-> OptInt(10), reps |-> OptInt(10),
             duration_seconds |-> OptInt(10), rest_seconds |-> OptInt(0)]
      [] class = "WorkoutRoutine" ->
            BaseExtraction("workout") @@
            [exercises |-> Required(ListOf("Exercise", 1)),
             total_rounds |-> OptInt(10),
             estimated_duration_minutes |-> Ge(Optional(Field("float")), 0),
             difficulty_level |->
                 Literal({"beginner", "intermediate", "advanced"}, "intermediate"),
             music_tempo_bpm |-> Le(OptInt(600), 2000)]
      [] class = "Ingredient" ->
            [name |-> Required(Field("str")), quantity |-> Required(Field("str")),
             notes |-> OptStr]
      [] class = "RecipeStep" ->
            [step_number |-> Required(Ge(Field("int"), 10)),
             instruction |-> Required(Field("str")),
             duration_minutes |-> Ge(Optional(Field("float")), 0),
             utensils |-> StrList]
      [] class = "RecipeCard" ->
            BaseExtraction("recipe") @@
            [ingredients |-> Optional(ListOf("Ingredient", 0)),
             steps |-> Optional(ListOf("RecipeStep", 0)),
             prep_time_minutes |-> OptInt(0), cook_time_minutes |-> OptInt(0),
             servings |-> OptInt(10), cuisine_type |-> OptStr]
      [] class = "Activity" ->
            [name |-> Required(Field("str")), location |-> Required(Field("str")),
             google_maps_link |-> OptStr, booking_link |-> OptStr,
             estimated_duration_hours |-> Ge(Optional(Field("float")), 0)]
      [] class = "TravelItinerary" ->
            BaseExtraction("travel") @@
            [destination |-> Required(Field("str")),
             activities |-> Required(ListOf("Activity", 1)),
             day_breakdown |-> Optional(ListOf("dict", 0)),
             estimated_budget |-> OptStr]
      [] class = "Product" ->
            [name |-> Required(Field("str")), brand |-> OptStr, price |-> OptStr,
             currency |-> OptStr, purchase_links |-> StrList,
             product_category |-> OptStr]
      [] class = "ProductCatalog" ->
            BaseExtraction("product") @@
            [products |-> Optional(ListOf("Product", 0))]
      [] class = "TutorialStep" ->
            [step_number |-> Required(Ge(Field("int"), 10)),
             description |-> Required(Field("str")),
             tools_required |-> StrList, resource_links |-> StrList]
      [] class = "TutorialSummary" ->
            BaseExtraction("educational") @@
            [topic |-> OptStr,
             steps |-> Optional(ListOf("TutorialStep", 0)),
             prerequisites |-> StrList,
             estimated_time_minutes |-> OptInt(0)]
      [] class = "SongMetadata" ->
            BaseExtraction("music") @@
            [song_title |-> OptStr, artist |-> OptStr, genre |-> OptStr,
             lyrics_snippet |-> OptStr, spotify_link |-> OptStr,
             youtube_link |-> OptStr, mood |-> OptStr]
      [] class = "GenericExtraction" ->
            [category |-> Required(Field("str")),
             title |-> OptStr, description |-> OptStr, source_url |-> OptStr,
             extracted_at |-> Default(Field("datetime"), JText("now")),
             keyframes |-> Optional(ListOf("any", 0)),
             confidence_score |-> Default(Le(Ge(Field("float"), 0), 10), JNum(0)),
             raw_data |-> Default(Field("dict"), JEmpty)]

(***************************************************************************)
(* The constructors: pydantic validation of a mapping against the declared *)
(* fields.  The strings of the model are texts that are neither numerals   *)
(* nor timestamps, so a str never passes for a number or a datetime.       *)
(***************************************************************************)
\* the number a value stands for, in tenths
NumberOf(v) == IF v.k = "bool" THEN 10 * v.n ELSE v.n

InRange(field, v) ==
    /\ field.lo # <<>> => NumberOf(v) >= field.lo[1]
    /\ field.hi # <<>> => NumberOf(v) <= field.hi[1]

RECURSIVE ValidModel(_, _)

\* a list item against the item type of a list field
ValidItem(item, v) ==
    CASE item = "any"  -> TRUE
      [] item = "str"  -> v.k = "str"
      [] item = "dict" -> v.k = "obj"
      [] OTHER         -> v.k = "obj" /\ ValidModel(item, v.o)

\* a value against a field description
ValidValue(field, v) ==
    \/ field.opt /\ v.k = "null"
    \/ CASE field.t = "str"      -> v.k = "str"
         [] field.t = "int"      ->
                /\ v.k \in {"num", "bool"} /\ NumberOf(v) % 10 = 0
                /\ InRange(field, v)
         [] field.t = "float"    -> v.k \in {"num", "bool"} /\ InRange(field, v)
         [] field.t = "dict"     -> v.k = "obj"
         [] field.t = "datetime" -> v.k = "num"
         [] field.t = "literal"  -> v.k = "str" /\ v.s \in field.lits
         [] field.t = "list"     ->
                /\ v.k = "list" /\ Len(v.l) >= field.min
                /\ \A i \in 1..Len(v.l) : ValidItem(field.item, v.l[i])

\* model_class(**data) raises no ValidationError
ValidModel(class, data) ==
    LET fields == model_fields(class)
    IN  \A name \in DOMAIN fields :
           /\ fields[name].req => name \in DOMAIN data
           /\ name \in DOMAIN data => ValidValue(fields[name], data[name])

\* the instance model_class(**data) builds: the declared fields, defaults filled
\* in, the items of a list of models built the same way
RECURSIVE Instance(_, _)
Instance(class, data) ==
    LET fields == model_fields(class)
        Built(field, v) ==
            IF field.t = "list" /\ v.k = "list" /\ field.item \notin {"any", "str", "dict"}
            THEN JList([i \in 1..Len(v.l) |-> Instance(field.item, v.l[i].o)])
            ELSE v
    IN  JObj([name \in DOMAIN fields |->
                 IF name \in DOMAIN data THEN Built(fields[name], data[name])
                 ELSE fields[name].def])

(***************************************************************************)
(* Response text.  response.text is a sequence of tokens: a json fence     *)
(* (three backticks and the word json), a bare fence (three backticks),    *)
(* the text of one JSON document, or text that is no JSON.  A json fence   *)
(* starts with the three backticks of a bare fence.  A JSON document with  *)
(* three backticks inside one of its strings is the text before them, a    *)
(* bare fence, and the text after them.                                    *)
(***************************************************************************)
FenceJson == [t |-> "fence_json", v |-> JNull]

Fence == [t |-> "fence", v |-> JNull]

Junk == [t |-> "junk", v |-> JNull]

Document(v) == [t |-> "json", v |-> v]

IsFence(token) == token.t \in {"fence_json", "fence"}

\* text.split(fence)[0]: the tokens before the first backticks
RECURSIVE BeforeFence(_)
BeforeFence(text) ==
    IF text = <<>> \/ IsFence(Head(text)) THEN <<>>
    ELSE <<Head(text)>> \o BeforeFence(Tail(text))

\* the unwrapping of lines 581-584
Unwrap(text) ==
    IF text # <<>> /\ Head(text).t = "fence_json" THEN BeforeFence(Tail(text))
    ELSE IF text # <<>> /\ Head(text).t = "fence" THEN BeforeFence(Tail(text))
    ELSE text

\* the two parts of the text of a document around the backticks in it
JsonHead(v) == [t |-> "json_head", v |-> v]

JsonTail(v) == [t |-> "json_tail", v |-> v]

\* json.loads succeeds on the text: it is exactly one JSON document
ParsesAsJson(text) ==
    \/ Len(text) = 1 /\ text[1].t = "json"
    \/ Len(text) = 3 /\ text[1].t = "json_head" /\ text[2].t = "fence"
          /\ text[3] = JsonTail(text[1].v)

\* json.loads(text), with a top-level list wrapped as {"items": list}
Parsed(text) ==
    LET value == text[1].v
    IN  IF value.k = "list" THEN JObj([items |-> value]) ELSE value

(***************************************************************************)
(* The field reconciler (lines 598-649).                                   *)
(***************************************************************************)
NameLimit == 100

NameKeep == 50

category_map ==
    [WorkoutRoutine |-> "workout", RecipeCard |-> "recipe", TravelItinerary |-> "travel",
     ProductCatalog |-> "product", TutorialSummary |-> "educational",
     SongMetadata |-> "music"]

\* the texts of the model that contain "name"
TextsWithName == {"Tournament"}

\* the membership test or the subscript of lines 610-613 raises TypeError
ExerciseRaises(exercise) ==
    \/ exercise.k \in {"null", "num", "bool"}
    \/ exercise.k = "str" /\ exercise.s \in TextsWithName
    \/ exercise.k = "list" /\ \E i \in 1..Len(exercise.l) : exercise.l[i] = JText("name")

Min(a, b) == IF a < b THEN a ELSE b

\* first_line = name.split("\n")[0].strip(); first_line[:50] when longer than 50
FirstLineKept(name) ==
    JString(name.s, Min(name.m, NameKeep), Min(name.m, NameKeep))

\* the in-place clean-up of one exercise (lines 610-613)
CleanExercise(exercise) ==
    IF /\ Has(exercise, "name")
       /\ exercise.o["name"].k = "str"
       /\ exercise.o["name"].n > NameLimit
    THEN JObj([exercise.o EXCEPT !["name"] = FirstLineKept(exercise.o["name"])])
    ELSE exercise

\* the exercises clean-up applies: the key is a declared field and holds a list
CleansExercises(class, data) ==
    /\ "exercises" \in DOMAIN model_fields(class)
    /\ "exercises" \in DOMAIN data
    /\ data["exercises"].k = "list"

\* the reconciliation loop raises
ReconcileRaises(class, value) ==
    \/ value.k # "obj"
    \/ /\ CleansExercises(class, value.o)
       /\ \E i \in 1..Len(value.o["exercises"].l) :
             ExerciseRaises(value.o["exercises"].l[i])

\* gemini_data after the loop: the exercises cleaned in place
AfterCleanup(class, data) ==
    IF CleansExercises(class, data)
    THEN [data EXCEPT !["exercises"] =
             JList([i \in 1..Len(data["exercises"].l) |->
                       CleanExercise(data["exercises"].l[i])])]
    ELSE data

\* dict.update
Update(a, b) == [key \in DOMAIN a \cup DOMAIN b |-> IF key \in DOMAIN b THEN b[key] ELSE a[key]]

\* the keys of the response that match a declared field, and the others
Recognized(class, data) ==
    [key \in DOMAIN data \cap DOMAIN model_fields(class) |-> data[key]]

Extra(class, data) ==
    [key \in DOMAIN data \ DOMAIN model_fields(class) |-> data[key]]

\* a variant that keeps a category the response supplied
WithCategoryIfMissing(class, mapped) ==
    IF class \in DOMAIN category_map /\ "category" \notin DOMAIN mapped
    THEN Update(mapped, [category |-> JText(category_map[class])])
    ELSE mapped

\* "Always set the correct category"
WithCategory(class, mapped) ==
    IF class \in DOMAIN category_map
    THEN Update(mapped, [category |-> JText(category_map[class])])
    ELSE mapped

\* a variant that leaves an additional_context of the response as it is
WithExtraContextIfAbsent(mapped, extra) ==
    IF extra = NoKeys \/ "additional_context" \in DOMAIN mapped THEN mapped
    ELSE Update(mapped, [additional_context |-> JObj(extra)])

\* "Merge or create additional_context" (lines 634-642)
WithExtraContext(mapped, extra) ==
    IF extra = NoKeys THEN mapped
    ELSE IF "additional_context" \in DOMAIN mapped /\ mapped["additional_context"].k = "obj"
    THEN [mapped EXCEPT !["additional_context"] = JObj(Update(@.o, extra))]
    ELSE Update(mapped, [additional_context |-> JObj(extra)])

\* "Set model-specific defaults" (lines 645-649)
WithDefaults(class, mapped) ==
    LET Missing(key) == key \notin DOMAIN mapped \/ mapped[key].k = "null"
        duration == IF Missing("estimated_duration_minutes")
                    THEN [estimated_duration_minutes |-> JNum(200)] ELSE NoKeys
        level == IF Missing("difficulty_level")
                 THEN [difficulty_level |-> JText("intermediate")] ELSE NoKeys
    IN  IF class = "WorkoutRoutine" THEN Update(Update(mapped, duration), level)
        ELSE mapped

\* mapped_data as handed to the strict constructor
Reconciled(class, data) ==
    LET after == AfterCleanup(class, data)
    IN  WithDefaults(class,
            WithExtraContext(WithCategory(class, Recognized(class, after)),
                             Extra(class, after)))

\* gemini_data once the reconciler is through: mapped_data holds the values of the
\* response itself, so the exercises and a dict additional_context of the response
\* are the objects the reconciler changed
GeminiDataAfter(class, data) ==
    LET after == AfterCleanup(class, data)
        extra == Extra(class, after)
    IN  IF /\ extra # NoKeys
           /\ "additional_context" \in DOMAIN after \cap DOMAIN model_fields(class)
           /\ after["additional_context"].k = "obj"
        THEN [after EXCEPT !["additional_context"] = JObj(Update(@.o, extra))]
        ELSE after

(***************************************************************************)
(* The fallback formatter (_format_generic_data) and the assembly of the   *)
(* generic record (lines 661-697).                                         *)
(***************************************************************************)
field_mappings ==
    << <<"title", <<"title", "name", "recipe_name", "workout_name", "song_title", "topic">> >>,
       <<"description", <<"description", "desc", "summary", "overview", "notes">> >>,
       <<"items", <<"items", "list", "ingredients", "exercises", "activities", "products",
                    "steps">> >> >>

\* the value of the first variation that is present and truthy, <<>> if none
RECURSIVE FirstVariation(_, _)
FirstVariation(data, variations) ==
    IF variations = <<>> THEN <<>>
    ELSE IF Head(variations) \in DOMAIN data /\ Truthy(data[Head(variations)])
    THEN <<data[Head(variations)]>>
    ELSE FirstVariation(data, Tail(variations))

\* formatted after the loop over field_mappings (lines 491-495)
Normalized(data) ==
    LET hits == {i \in 1..Len(field_mappings) :
                    FirstVariation(data, field_mappings[i][2]) # <<>>}
    IN  [standard_name \in {field_mappings[i][1] : i \in hits} |->
            LET i == CHOOSE j \in hits : field_mappings[j][1] = standard_name
            IN  FirstVariation(data, field_mappings[i][2])[1]]

name_aliases == {"item", "exercise", "activity", "product"}

\* the order in which the documents of the model carry the name-like keys of an item
NameKeyOrder == <<"item", "name", "exercise", "activity", "product">>

\* the last key of order that is among keys
RECURSIVE LastPresent(_, _)
LastPresent(order, keys) ==
    IF order[Len(order)] \in keys THEN order[Len(order)]
    ELSE LastPresent(SubSeq(order, 1, Len(order) - 1), keys)

\* a variant that copies the items of a list as they are
FormatItemAsIs(item) == item

\* one list item: the alias keys written as "name", in the order of the item's keys
FormatItem(item) ==
    IF item.k # "obj" \/ DOMAIN item.o \cap name_aliases = {} THEN item
    ELSE JObj([key \in (DOMAIN item.o \ name_aliases) \cup {"name"} |->
                  IF key = "name" THEN item.o[LastPresent(NameKeyOrder, DOMAIN item.o)]
                  ELSE item.o[key]])

\* a variant that copies only the truthy values through
FormattedKeysTruthy(data, normalized) ==
    {key \in DOMAIN data : Truthy(data[key])} \cup DOMAIN normalized

\* the keys written by lines 491-517: the normalized names and every key of data
FormattedKeys(data, normalized) == DOMAIN data \cup DOMAIN normalized

_format_generic_data(value, class) ==
    LET data == IF value.k = "list" THEN [items |-> value] ELSE value.o
        normalized == Normalized(data)
        Formatted(key) ==
            IF key \in DOMAIN data /\ data[key].k = "list" /\ Len(data[key].l) > 0
            THEN JList([i \in 1..Len(data[key].l) |-> FormatItem(data[key].l[i])])
            ELSE IF key \in DOMAIN normalized THEN normalized[key]
            ELSE data[key]
    IN  Update([key \in FormattedKeys(data, normalized) |-> Formatted(key)],
               ("_original_category" :> JText(class))
               @@ ("_fallback_reason" :> JText("Field name mismatch or validation error")))

\* the merge of a context mapping into formatted_data (lines 668-674, 678-683)
MergeContext(formatted, context) ==
    LET base == IF "additional_context" \in DOMAIN formatted
                THEN formatted["additional_context"] ELSE JEmpty
    IN  IF base.k = "obj"
        THEN Update(formatted, [additional_context |-> JObj(Update(base.o, context.o))])
        ELSE Update(formatted, [additional_context |-> context])

\* formatted_data as stored in raw_data
FormattedData(class, data, mapped, extra) ==
    LET formatted == _format_generic_data(data, class)
        merged == IF /\ "additional_context" \in DOMAIN mapped
                     /\ Truthy(mapped["additional_context"])
                  THEN MergeContext(formatted, mapped["additional_context"])
                  ELSE formatted
    IN  IF extra # NoKeys THEN MergeContext(merged, JObj(extra)) ELSE merged

\* dict.get(key, default)
Get(mapping, key, default) == IF key \in DOMAIN mapping THEN mapping[key] ELSE default

\* a or b
Or(a, b) == IF Truthy(a) THEN a ELSE b

\* generic_data (lines 686-693)
GenericData(formatted, mapped) ==
    [category |-> Get(mapped, "category", JText("unknown")),
     title |-> Or(Get(formatted, "title", JNull), Get(mapped, "title", JNull)),
     description |-> Or(Get(formatted, "description", JNull), Get(mapped, "description", JNull)),
     source_url |-> Get(mapped, "source_url", JNull),
     confidence_score |-> Get(mapped, "confidence_score", JNum(5)),
     raw_data |-> JObj(formatted)]

(***************************************************************************)
(* The responses of the backend.  A response document carries any          *)
(* combination of the envelope keys, the Workout and Travel keys and keys  *)
(* no schema declares, with values of the right and of the wrong type.     *)
(***************************************************************************)
MaxItems == 1

\* the mappings with at most the one key, holding one of the values
Maybe(key, values) == {NoKeys} \cup {key :> v : v \in values}

Crunches == JObj([name |-> JText("Crunches"), reps |-> JInt(20)])

CrunchesAsExercise == JObj([exercise |-> JText("Crunches"), reps |-> JInt(20)])

\* a name of 120 characters on one line
LongNamed == JObj([name |-> JString("Crunches, slow and controlled", 120, 120)])

ExerciseItems == {Crunches, CrunchesAsExercise, LongNamed, JInt(5)}

\* the lists of at most MaxItems of the items
ListsOf(items) ==
    {JList(q) : q \in UNION {[1..len -> items] : len \in 0..MaxItems}}

Louvre == JObj([name |-> JText("Louvre"), location |-> JText("Paris")])

OwnContext == JObj([note |-> JText("filmed outdoors"), trainer_tip |-> JText("warm up")])

UndeclaredKeys ==
    {NoKeys,
     [trainer_tip |-> JText("breathe out on exertion")],
     [trainer_tip |-> JText("breathe out on exertion"),
      exercise_list |-> JList(<<CrunchesAsExercise>>)]}

TravelKeys ==
    {NoKeys,
     [destination |-> JText("Paris")],
     [destination |-> JText("Paris"), activities |-> JList(<<Louvre>>)]}

Bodies ==
    {JObj(category @@ title @@ score @@ context @@ exercises @@ undeclared @@ travel) :
        category \in Maybe("category", {JText("recipe")}),
        title \in Maybe("title", {JText("5 Min Abs"), JInt(7)}),
        score \in Maybe("confidence_score", {JNum(9), JNum(15)}),
        context \in Maybe("additional_context", {OwnContext, JNull}),
        exercises \in Maybe("exercises", ListsOf(ExerciseItems)),
        undeclared \in UndeclaredKeys,
        travel \in TravelKeys}

\* a fenced answer: a title, the exercises under exercise_list, an undeclared key
ScenarioA ==
    JObj([title |-> JText("5 Min Abs"),
          exercise_list |-> JList(<<CrunchesAsExercise>>),
          trainer_tip |-> JText("breathe out on exertion")])

\* documents that are no JSON object: a top-level list, a number
OtherDocuments == {JList(<<Louvre>>), JInt(5)}

\* a document with three backticks inside its description
Quoting == JObj([title |-> JText("5 Min Abs"), description |-> JText("fence in the text")])

QuotingText == <<JsonHead(Quoting), Fence, JsonTail(Quoting)>>

Responses ==
    {<<Document(body)>> : body \in Bodies \cup OtherDocuments}
    \cup {<<FenceJson, Document(ScenarioA), Fence>>,
          <<Fence, Document(ScenarioA), Fence>>,
          <<Junk>>,
          <<FenceJson, Junk, Fence>>,
          <<Document(ScenarioA), Junk>>,
          QuotingText,
          <<FenceJson>> \o QuotingText \o <<Fence>>,
          <<Fence>> \o QuotingText \o <<Fence>>}

(***************************************************************************)
(* One call of _extract_structured_data(prompt, model_class, ...).         *)
(***************************************************************************)
InitExtractor ==
    /\ pc = "Called"
    /\ visited = <<>>
    /\ model_class \in StrictClasses
    /\ response_text = <<>>
    /\ gemini_data = JNull
    /\ raw_response = JNull
    /\ mapped_data = JNull
    /\ extra_context = JNull
    /\ formatter_runs = 0
    /\ result = NoResult
    /\ SanitizerIdle
    /\ ServiceIdle

Goto(position) ==
    /\ pc' = position
    /\ visited' = Append(visited, position)

ErrorResult(message) == [kind |-> "error", instance |-> JNull, error |-> message]

\* a variant that answers a parse error with a generic record of the text
FallbackOnDecodeError(text) ==
    [position |-> "FallbackConstructed", formatter_runs |-> 1,
     result |-> [kind |-> "generic", instance |-> JObj([raw_data |-> JEmpty]), error |-> ""]]

\* except json.JSONDecodeError (lines 702-703)
OnDecodeError(text) ==
    [position |-> "Done", formatter_runs |-> 0,
     result |-> ErrorResult("Invalid JSON response")]

\* lines 547-563: the content parts are built
BuildPrompt ==
    /\ pc = "Called"
    /\ Goto("PromptBuilt")
    /\ UNCHANGED <<model_class, response_text, gemini_data, raw_response, mapped_data,
                   extra_context, formatter_runs, result, sanitizer_vars, service_vars>>

\* genai.upload_file or generate_content raises (lines 552-575, 704-705)
BackendRaises ==
    /\ pc \in {"Called", "PromptBuilt"}
    /\ Goto("Done")
    /\ result' = ErrorResult("Error extracting data")
    /\ UNCHANGED <<model_class, response_text, gemini_data, raw_response, mapped_data,
                   extra_context, formatter_runs, sanitizer_vars, service_vars>>

\* lines 572-578: the backend answers
GenerateContent ==
    /\ pc = "PromptBuilt"
    /\ response_text' \in Responses
    /\ Goto("ResponseReceived")
    /\ UNCHANGED <<model_class, gemini_data, raw_response, mapped_data, extra_context,
                   formatter_runs, result, sanitizer_vars, service_vars>>

\* lines 581-586: json.loads raises JSONDecodeError
ParseFails ==
    /\ pc = "ResponseReceived"
    /\ ~ParsesAsJson(Unwrap(response_text))
    /\ Goto(OnDecodeError(response_text).position)
    /\ formatter_runs' = formatter_runs + OnDecodeError(response_text).formatter_runs
    /\ result' = OnDecodeError(response_text).result
    /\ UNCHANGED <<model_class, response_text, gemini_data, raw_response, mapped_data,
                   extra_context, sanitizer_vars, service_vars>>

\* lines 586-649: the response is parsed and reconciled
Reconcile ==
    /\ pc = "ResponseReceived"
    /\ ParsesAsJson(Unwrap(response_text))
    /\ LET data == Parsed(Unwrap(response_text))
       IN  /\ ~ReconcileRaises(model_class, data)
           /\ raw_response' = data
           /\ gemini_data' = JObj(GeminiDataAfter(model_class, data.o))
           /\ mapped_data' = JObj(Reconciled(model_class, data.o))
           /\ extra_context' = JObj(Extra(model_class, data.o))
    /\ Goto("Reconciled")
    /\ UNCHANGED <<model_class, response_text, formatter_runs, result, sanitizer_vars, service_vars>>

\* lines 605-613, 704-705: the reconciliation raises
ReconcileFails ==
    /\ pc = "ResponseReceived"
    /\ ParsesAsJson(Unwrap(response_text))
    /\ ReconcileRaises(model_class, Parsed(Unwrap(response_text)))
    /\ raw_response' = Parsed(Unwrap(response_text))
    /\ Goto("Done")
    /\ result' = ErrorResult("Error extracting data")
    /\ UNCHANGED <<model_class, response_text, gemini_data, mapped_data, extra_context,
                   formatter_runs, sanitizer_vars, service_vars>>

\* lines 652-654: the strict constructor accepts mapped_data
Validate ==
    /\ pc = "Reconciled"
    /\ ValidModel(model_class, mapped_data.o)
    /\ Goto("Validated")
    /\ result' = [kind |-> "strict", instance |-> Instance(model_class, mapped_data.o),
                  error |-> ""]
    /\ UNCHANGED <<model_class, response_text, gemini_data, raw_response, mapped_data,
                   extra_context, formatter_runs, sanitizer_vars, service_vars>>

\* lines 655-697: the strict constructor raises, the generic record is built
Fallback ==
    /\ pc = "Reconciled"
    /\ ~ValidModel(model_class, mapped_data.o)
    /\ formatter_runs' = formatter_runs + 1
    /\ LET formatted == FormattedData(model_class, gemini_data, mapped_data.o, extra_context.o)
           generic_data == GenericData(formatted, mapped_data.o)
       IN  /\ ValidModel("GenericExtraction", generic_data)
           /\ result' = [kind |-> "generic",
                         instance |-> Instance("GenericExtraction", generic_data),
                         error |-> ""]
    /\ Goto("FallbackConstructed")
    /\ UNCHANGED <<model_class, response_text, gemini_data, raw_response, mapped_data,
                   extra_context, sanitizer_vars, service_vars>>

\* lines 698-700: GenericExtraction raises as well
FallbackFails ==
    /\ pc = "Reconciled"
    /\ ~ValidModel(model_class, mapped_data.o)
    /\ formatter_runs' = formatter_runs + 1
    /\ LET formatted == FormattedData(model_class, gemini_data, mapped_data.o, extra_context.o)
       IN  ~ValidModel("GenericExtraction", GenericData(formatted, mapped_data.o))
    /\ Goto("Done")
    /\ result' = ErrorResult("Failed to create even generic extraction")
    /\ UNCHANGED <<model_class, response_text, gemini_data, raw_response, mapped_data,
                   extra_context, sanitizer_vars, service_vars>>

\* lines 654, 697: the instance is returned
Return ==
    /\ pc \in {"Validated", "FallbackConstructed"}
    /\ Goto("Done")
    /\ UNCHANGED <<model_class, response_text, gemini_data, raw_response, mapped_data,
                   extra_context, formatter_runs, result, sanitizer_vars, service_vars>>

NextExtractor ==
    \/ BuildPrompt
    \/ BackendRaises
    \/ GenerateContent
    \/ ParseFails
    \/ Reconcile
    \/ ReconcileFails
    \/ Validate
    \/ Fallback
    \/ FallbackFails
    \/ Return

SpecExtractor == InitExtractor /\ [][NextExtractor]_vars

(***************************************************************************)
(* Properties of one call of _extract_structured_data.                     *)
(***************************************************************************)
Visited(position) == \E i \in 1..Len(visited) : visited[i] = position

ReturnsRecord == result.kind \in {"strict", "generic"}

\* the strict constructor has raised in this call
StrictConstructionFailed == Visited("Reconciled") /\ ~Visited("Validated") /\ pc # "Reconciled"

ScoreOutOfRange(v) ==
    /\ Has(v, "confidence_score")
    /\ v.o["confidence_score"].k = "num"
    /\ (NumberOf(v.o["confidence_score"]) < 0 \/ NumberOf(v.o["confidence_score"]) > 10)

\* C1: whenever strict construction fails and a GenericExtraction is returned,
\* every top-level key of the parsed response is a key of the raw_data of the
\* record (under its original name, which covers the aliases title,
\* description and items as well).
C1_KeysKept ==
    result.kind = "generic" =>
        \A key \in DOMAIN raw_response.o : Has(result.instance.o["raw_data"], key)

C1_Witness ==
    /\ pc = "Done"
    /\ result.kind = "generic"
    /\ Has(raw_response, "exercise_list")
    /\ Has(raw_response, "trainer_tip")
    /\ At(raw_response, <<"additional_context">>) = JNull
    /\ Has(raw_response, "additional_context")

\* C2: whenever the response parses as JSON and the strict constructor rejects
\* the reconciled mapping, the call returns a GenericExtraction and no error.
C2_MismatchFallsBack ==
    (pc = "Done" /\ StrictConstructionFailed) =>
        (result.kind = "generic" /\ result.error = "")

\* C3: the category of every returned record, strict or generic, is the literal
\* of the target schema, whatever the response gave under category.
C3_CategoryForced ==
    ReturnsRecord => result.instance.o["category"] = JText(category_map[model_class])

C3_Witness ==
    /\ pc = "Done"
    /\ result.kind = "generic"
    /\ model_class = "WorkoutRoutine"
    /\ At(raw_response, <<"category">>) = JText("recipe")

Rank(position) ==
    CASE position = "PromptBuilt"         -> 1
      [] position = "ResponseReceived"    -> 2
      [] position = "Reconciled"          -> 3
      [] position = "Validated"           -> 4
      [] position = "FallbackConstructed" -> 4
      [] position = "Done"                -> 5

C5_OutOfRangeClamped ==
    (pc = "Done" /\ StrictConstructionFailed /\ ScoreOutOfRange(raw_response)) =>
        /\ result.kind = "generic"
        /\ NumberOf(result.instance.o["confidence_score"]) \in 0..10

\* C6: when strict construction succeeds, every top-level key of the parsed
\* response that is no declared field of the target schema is a key of the
\* additional_context of the returned record.
C6_ExtrasKept ==
    result.kind = "strict" =>
        \A key \in DOMAIN raw_response.o \ DOMAIN model_fields(model_class) :
            Has(result.instance.o["additional_context"], key)

C6_Witness ==
    /\ pc = "Done"
    /\ result.kind = "strict"
    /\ At(raw_response, <<"additional_context">>) = OwnContext
    /\ Has(raw_response, "trainer_tip")
    /\ Has(raw_response, "exercise_list")

\* scenario A: the response was the title, the exercises under exercise_list
\* and a trainer_tip, for the Workout schema
IsScenarioA == model_class = "WorkoutRoutine" /\ raw_response = ScenarioA

\* C12 as stated: scenario A ends in a generic record whose raw_data has an
\* items list with the single entry {name: Crunches, reps: 20}, the trainer_tip
\* as given and _original_category WorkoutRoutine.
C12_ScenarioAItems ==
    (pc = "Done" /\ IsScenarioA) =>
        /\ result.kind = "generic"
        /\ At(result.instance, <<"raw_data", "items">>) = JList(<<Crunches>>)
        /\ At(result.instance, <<"raw_data", "trainer_tip">>) = ScenarioA.o["trainer_tip"]
        /\ At(result.instance, <<"raw_data", "_original_category">>) = JText("WorkoutRoutine")

\* C12 amended: scenario A ends in a generic record whose raw_data has no items
\* key and holds the list under exercise_list, with the single entry
\* {name: Crunches, reps: 20}, the trainer_tip as given and _original_category
\* WorkoutRoutine.
C12_ScenarioAExerciseList ==
    (pc = "Done" /\ IsScenarioA) =>
        /\ result.kind = "generic"
        /\ ~Has(result.instance.o["raw_data"], "items")
        /\ At(result.instance, <<"raw_data", "exercise_list">>) = JList(<<Crunches>>)
        /\ At(result.instance, <<"raw_data", "trainer_tip">>) = ScenarioA.o["trainer_tip"]
        /\ At(result.instance, <<"raw_data", "_original_category">>) = JText("WorkoutRoutine")

C12_Witness ==
    /\ pc = "Done"
    /\ IsScenarioA
    /\ response_text = <<FenceJson, Document(ScenarioA), Fence>>
    /\ Visited("FallbackConstructed")

\* the confidence_score the strict constructor gives the record: the score of
\* the response, the declared default without one
StrictScore ==
    IF Has(raw_response, "confidence_score") THEN raw_response.o["confidence_score"]
    ELSE model_fields(model_class)["confidence_score"].def

\* C13: the confidence_score of a generic fallback record is never above the
\* score the strict path would have used for the same response.
C13_FallbackScoreNotAbove ==
    result.kind = "generic" =>
        NumberOf(result.instance.o["confidence_score"]) <= NumberOf(StrictScore)

\* the response text is a fenced block
IsWrapped(text) == Len(text) >= 3 /\ IsFence(text[1]) /\ text[Len(text)] = Fence

\* the text inside the fenced block
Inner(text) == SubSeq(text, 2, Len(text) - 1)

\* C14: from a JSON text wrapped in a json fenced block or in a bare fenced
\* block the call obtains the value it obtains from the text given raw,
\* json.loads of the text.
C14_FencedParsesAsRaw ==
    (Visited("ResponseReceived") /\ pc # "ResponseReceived"
        /\ IsWrapped(response_text) /\ ParsesAsJson(Inner(response_text))) =>
        /\ result.error # "Invalid JSON response"
        /\ raw_response = Parsed(Inner(response_text))

\* C20: for a response that parses to a JSON object the reconciliation step
\* does not raise: the call reaches the strict constructor with a candidate
\* mapping, whatever the types of the values of the object.
C20_ReconcileNeverRaises ==
    (Visited("ResponseReceived") /\ pc # "ResponseReceived"
        /\ ParsesAsJson(Unwrap(response_text))
        /\ Parsed(Unwrap(response_text)).k = "obj") =>
        /\ Visited("Reconciled")
        /\ result.error # "Error extracting data"

\* C21: reconciliation leaves the raw response mapping as it was parsed: the
\* mapping handed to the fallback formatter equals the parsed response,
\* its own additional_context and the names of its exercises included.
C21_FormatterGetsParsedResponse ==
    StrictConstructionFailed => gemini_data = raw_response

\* every entry (key and value) of part is an entry of whole
Entries_In(part, whole) ==
    \A key \in DOMAIN part : key \in DOMAIN whole /\ whole[key] = part[key]

\* C22: when the response has its own additional_context mapping and also
\* unrecognized top-level keys, the additional_context of the reconciled
\* mapping holds every entry of the response's own additional_context and
\* every unrecognized key with its value.
C22_MergeKeepsBoth ==
    (Visited("Reconciled")
        /\ Has(raw_response, "additional_context")
        /\ raw_response.o["additional_context"].k = "obj"
        /\ extra_context.o # NoKeys) =>
        /\ Has(mapped_data, "additional_context")
        /\ mapped_data.o["additional_context"].k = "obj"
        /\ Entries_In(raw_response.o["additional_context"].o,
                      mapped_data.o["additional_context"].o)
        /\ Entries_In(extra_context.o, mapped_data.o["additional_context"].o)

\* the response has its own additional_context mapping and unrecognized keys
MergesContexts ==
    /\ Visited("Reconciled")
    /\ Has(raw_response, "additional_context")
    /\ raw_response.o["additional_context"].k = "obj"
    /\ extra_context.o # NoKeys

\* C22 (amended): the merged additional_context holds exactly the keys of the
\* response's own additional_context and the unrecognized keys; every
\* unrecognized key has its top-level value, and an entry of the own
\* additional_context keeps its value unless its key is also an unrecognized
\* top-level key.
C22_MergeTopLevelWins ==
    MergesContexts =>
        LET own == raw_response.o["additional_context"].o
            merged == mapped_data.o["additional_context"]
        IN  /\ merged.k = "obj"
            /\ DOMAIN merged.o = DOMAIN own \cup DOMAIN extra_context.o
            /\ Entries_In(extra_context.o, merged.o)
            /\ Entries_In([key \in DOMAIN own \ DOMAIN extra_context.o |-> own[key]],
                          merged.o)

\* a key of the own additional_context that is also an unrecognized top-level
\* key, with another value
C22_Witness ==
    /\ MergesContexts
    /\ \E key \in DOMAIN raw_response.o["additional_context"].o \cap DOMAIN extra_context.o :
          raw_response.o["additional_context"].o[key] # extra_context.o[key]
    /\ DOMAIN raw_response.o["additional_context"].o \ DOMAIN extra_context.o # {}

\* the response with the alias keys of the items of its exercises read as "name"
AliasesAsName(data) ==
    IF "exercises" \in DOMAIN data /\ data["exercises"].k = "list"
    THEN [data EXCEPT !["exercises"] =
             JList([i \in 1..Len(data["exercises"].l) |->
                       FormatItem(data["exercises"].l[i])])]
    ELSE data

\* an item of the exercises of the response carries an alias key and no "name"
CarriesAlias(data) ==
    /\ "exercises" \in DOMAIN data
    /\ data["exercises"].k = "list"
    /\ \E i \in 1..Len(data["exercises"].l) :
          LET item == data["exercises"].l[i]
          IN  item.k = "obj" /\ DOMAIN item.o \cap name_aliases # {}
                 /\ "name" \notin DOMAIN item.o

\* C23: a Workout response whose exercises carry an alias key ('item',
\* 'exercise', 'activity', 'product') instead of 'name', and that is valid
\* once the alias is read as 'name', yields a strict WorkoutRoutine.
C23_AliasYieldsStrict ==
    (pc = "Done" /\ model_class = "WorkoutRoutine" /\ Visited("Reconciled")
        /\ CarriesAlias(raw_response.o)
        /\ ValidModel(model_class, Reconciled(model_class, AliasesAsName(raw_response.o)))) =>
        result.kind = "strict"

\* no object among the items of the list carries an alias key
NoAliasKeys(list) ==
    \A i \in 1..Len(list.l) :
       list.l[i].k = "obj" => DOMAIN list.l[i].o \cap name_aliases = {}

\* C24: in the output of the fallback formatter, as stored in raw_data, no
\* list-valued field (the normalized 'items' included) holds an object with a
\* key 'item', 'exercise', 'activity' or 'product'.
C24_NoAliasInFormattedLists ==
    result.kind = "generic" =>
        LET raw_data == result.instance.o["raw_data"].o
        IN  \A key \in DOMAIN raw_data \ {"additional_context"} :
               raw_data[key].k = "list" => NoAliasKeys(raw_data[key])

(***************************************************************************)
(* detect_category (gemini_analyzer.py lines 60-121).  The answer of the   *)
(* backend is a sequence of characters.                                    *)
(***************************************************************************)
categories == <<"workout", "recipe", "travel", "product", "educational", "music">>

\* the characters of a category name
Spell(label) ==
    CASE label = "workout" -> <<"w", "o", "r", "k", "o", "u", "t">>
      [] label = "recipe" -> <<"r", "e", "c", "i", "p", "e">>
      [] label = "travel" -> <<"t", "r", "a", "v", "e", "l">>
      [] label = "product" -> <<"p", "r", "o", "d", "u", "c", "t">>
      [] label = "educational" -> <<"e", "d", "u", "c", "a", "t", "i", "o", "n", "a", "l">>
      [] label = "music" -> <<"m", "u", "s", "i", "c">>

\* str.lower() on one character
LowerChar(c) ==
    CASE c = "R" -> "r" [] c = "M" -> "m" [] c = "U" -> "u" [] c = "S" -> "s"
      [] c = "I" -> "i" [] c = "C" -> "c" [] OTHER -> c

Lower(text) == [i \in 1..Len(text) |-> LowerChar(text[i])]

\* str.strip()
RECURSIVE Strip(_)
Strip(text) ==
    IF text = <<>> THEN text
    ELSE IF Head(text) \in {" ", "\n"} THEN Strip(Tail(text))
    ELSE IF text[Len(text)] \in {" ", "\n"} THEN Strip(SubSeq(text, 1, Len(text) - 1))
    ELSE text

\* sub in text
Occurs(sub, text) ==
    \E i \in 0..(Len(text) - Len(sub)) : SubSeq(text, i + 1, i + Len(sub)) = sub

\* a variant that settles on a category when the answer names none
DefaultCategory(category) == [category |-> "workout", error |-> None]

\* line 118: no category of the list is in the answer
NoCategory(category) == [category |-> None, error |-> "Could not determine category"]

\* lines 108-118: the answer is matched against the categories
MatchCategory(text) ==
    LET category == Lower(Strip(text))
        exact == {i \in 1..Len(categories) : category = Spell(categories[i])}
        hits == {i \in 1..Len(categories) : Occurs(Spell(categories[i]), category)}
        First(found) == CHOOSE i \in found : \A j \in found : i <= j
    IN  IF exact # {} THEN [category |-> categories[First(exact)], error |-> None]
        ELSE IF hits # {} THEN [category |-> categories[First(hits)], error |-> None]
        ELSE NoCategory(category)

\* what the backend does with a detection request: an upload raises, the
\* generation raises, or it answers with a text
Answers ==
    {[kind |-> "upload_raises", text |-> <<>>], [kind |-> "generate_raises", text |-> <<>>]}
    \cup {[kind |-> "text", text |-> text] : text \in
    {<<"w", "o", "r", "k", "o", "u", "t">>,
     <<" ", "R", "e", "c", "i", "p", "e", "\n">>,
     <<"t", "r", "a", "v", "e", "l", " ", "v", "l", "o", "g">>,
     <<"M", "U", "S", "I", "C">>,
     <<"m", "u", "s", "i", "c", ",", " ", "t", "r", "a", "v", "e", "l">>,
     <<"d", "a", "n", "c", "e">>,
     <<>>}}

\* detect_category as a whole: the pair returned
detect_category(a) ==
    IF a.kind = "text" THEN MatchCategory(a.text)
    ELSE [category |-> None, error |-> "Error detecting category"]

(***************************************************************************)
(* store_extraction (supermemeory_client.py lines 50-161).                 *)
(***************************************************************************)
\* hashlib.md5(source_url.encode()) at line 83 raises on None
PayloadRaises(source_url) == source_url = None

\* the (result, error) pair, given whether the backend accepts the request
store_extraction(source_url, accepts) ==
    IF PayloadRaises(source_url) THEN [result |-> None, error |-> "Error storing extraction"]
    ELSE IF accepts THEN [result |-> "stored", error |-> None]
    ELSE [result |-> None, error |-> "Supermemory package error"]

\* the add requests the call makes
AddRequests(source_url) == IF PayloadRaises(source_url) THEN 0 ELSE 1

(***************************************************************************)
(* ReelExtractor.extract (main.py lines 32-164) with analyze_video         *)
(* (gemini_analyzer.py lines 707-748).                                     *)
(***************************************************************************)
KeyframePaths == <<"frame_000.jpg", "frame_001.jpg", "frame_002.jpg">>

Segmentations ==
    {[errors |-> <<>>, keyframes |-> KeyframePaths],
     [errors |-> <<"Audio extraction">>, keyframes |-> KeyframePaths],
     [errors |-> <<"Keyframe extraction">>, keyframes |-> <<>>]}

Hints == {"", "workout", "travel", "dance"}

InitPipeline ==
    /\ ppc = "start"
    /\ source_type \in {"url", "file"}
    /\ preferred_category \in Hints
    /\ backend_accepts \in BOOLEAN
    /\ segmentation = [errors |-> <<>>, keyframes |-> <<>>]
    /\ answer = [kind |-> None, text |-> <<>>]
    /\ generate_calls = 0
    /\ extractor_calls = 0
    /\ notifications = <<>>
    /\ detected = Pending
    /\ analysis = <<>>
    /\ record = NoRecord
    /\ storage = [result |-> None, error |-> None]
    /\ memories = 0
    /\ extract_result = [success |-> FALSE, extraction |-> None, stored |-> FALSE, errors |-> <<>>]
    /\ SanitizerIdle
    /\ ExtractorIdle
    /\ RegistryIdle
    /\ PlannerIdle

\* a variant that drops the last notification of the sequence
notifyButLast(pairs) == notifications' = notifications \o SubSeq(pairs, 1, Len(pairs) - 1)

\* notify(stage, progress) for each pair of the sequence (main.py lines 56-64)
notify(pairs) == notifications' = notifications \o pairs

\* result["errors"].append(entry); return result
Fails(entry) ==
    /\ extract_result' = [extract_result EXCEPT !.errors = Append(@, entry)]
    /\ ppc' = "returned"

\* main.py lines 75-86
Download ==
    /\ ppc = "start"
    /\ \/ /\ ppc' = "downloaded"
          /\ notify(<< <<"downloading", 10>>, <<"downloading", 30>>, <<"segmenting", 40>> >>)
          /\ UNCHANGED extract_result
       \/ /\ Fails("Download error")
          /\ notify(<< <<"downloading", 10>>, <<"error", 100>> >>)
    /\ UNCHANGED <<source_type, preferred_category, backend_accepts, segmentation, answer,
                   generate_calls, extractor_calls, detected, analysis, record, storage, memories,
                   sanitizer_vars, extractor_vars, registry_vars, planner_vars>>

\* main.py lines 88-116
Segment ==
    /\ ppc = "downloaded"
    /\ segmentation' \in Segmentations
    /\ extract_result' = [extract_result EXCEPT !.errors = @ \o segmentation'.errors]
    /\ ppc' = "segmented"
    /\ notify(<< <<"segmenting", 60>>, <<"analyzing", 70>> >>)
    /\ UNCHANGED <<source_type, preferred_category, backend_accepts, answer, generate_calls,
                   extractor_calls,
                   detected, analysis, record, storage, memories,
                   sanitizer_vars, extractor_vars, registry_vars, planner_vars>>

\* analyze_video, lines 726-731: no hint, the category is detected
DetectCategory ==
    /\ ppc = "segmented"
    /\ preferred_category = ""
    /\ answer' \in Answers
    /\ generate_calls' = generate_calls + (IF answer'.kind = "upload_raises" THEN 0 ELSE 1)
    /\ detected' = detect_category(answer')
    /\ IF detected'.error # None
       THEN analysis' = <<NoRecord, detected'.error>> /\ ppc' = "analyzed"
       ELSE UNCHANGED analysis /\ ppc' = "resolved"
    /\ UNCHANGED <<source_type, preferred_category, backend_accepts, segmentation, record,
                   extractor_calls, notifications,
                   storage, memories, extract_result, sanitizer_vars, extractor_vars, registry_vars, planner_vars>>

\* a variant that always takes the detected category
DetectedOnly(hint, category) == category

\* analyze_video, lines 727-731: the hint, or else the detected category
Resolved(hint, category) == IF hint # "" THEN hint ELSE category

\* analyze_video, lines 734-741: the extractor of each category
category_extractors ==
    [workout |-> "extract_workout_routine", recipe |-> "extract_recipe",
     travel |-> "extract_travel_itinerary", product |-> "extract_product_catalog",
     educational |-> "extract_tutorial", music |-> "extract_song_metadata"]

\* analyze_video, lines 733-748: the extractor of the category runs
RunExtractor ==
    /\ \/ ppc = "segmented" /\ preferred_category # ""
       \/ ppc = "resolved"
    /\ LET category == Resolved(preferred_category, detected.category)
       IN  IF category \notin DOMAIN category_extractors
           THEN analysis' = <<NoRecord, "Unknown category">> /\ UNCHANGED extractor_calls
           ELSE /\ extractor_calls' = extractor_calls + 1
                /\ \/ \E kind \in {"strict", "generic"} :
                         analysis' = <<[kind |-> kind, keyframes |-> <<>>], None,
                                       segmentation.keyframes>>
                   \/ analysis' = <<NoRecord, "Error extracting data",
                                    segmentation.keyframes>>
    /\ ppc' = "analyzed"
    /\ UNCHANGED <<source_type, preferred_category, backend_accepts, segmentation, answer,
                   generate_calls, notifications, detected, record, storage, memories, extract_result,
                   sanitizer_vars, extractor_vars, registry_vars, planner_vars>>

\* main.py lines 127-140: the tuple is unpacked into three names, the keyframes
\* are set on the extraction, the error is looked at
Unpack ==
    /\ ppc = "analyzed"
    /\ IF Len(analysis) # 3 \/ analysis[1] = NoRecord
       THEN Fails("Unexpected error") /\ notify(<< <<"error", 100>> >>) /\ UNCHANGED record
       ELSE /\ record' = [analysis[1] EXCEPT !.keyframes = analysis[3]]
            /\ IF analysis[2] # None
               THEN Fails("Analysis error") /\ notify(<< <<"error", 100>> >>)
               ELSE /\ extract_result' = [extract_result EXCEPT !.extraction = "record"]
                    /\ notify(<< <<"analyzing", 85>>, <<"storing", 90>> >>)
                    /\ ppc' = "kept"
    /\ UNCHANGED <<source_type, preferred_category, backend_accepts, segmentation, answer,
                   generate_calls, extractor_calls, detected, analysis, storage, memories,
                   sanitizer_vars, extractor_vars, registry_vars, planner_vars>>

\* main.py lines 143-157 with store_extraction
Store ==
    /\ ppc = "kept"
    /\ LET source_url == IF source_type = "url" THEN "input_source" ELSE None
           outcome == store_extraction(source_url, backend_accepts)
       IN  /\ storage' = outcome
           /\ memories' = memories + AddRequests(source_url) 
           /\ record' = [record EXCEPT !.keyframes = <<>>]
           /\ extract_result' =
                 [extract_result EXCEPT
                     !.errors = IF outcome.error # None THEN Append(@, "Storage error") ELSE @,
                     !.stored = outcome.error = None,
                     !.success = TRUE]
    /\ ppc' = "returned"
    /\ notify(<< <<"done", 100>> >>)
    /\ UNCHANGED <<source_type, preferred_category, backend_accepts, segmentation, answer,
                   generate_calls, extractor_calls, detected, analysis, sanitizer_vars, extractor_vars, registry_vars, planner_vars>>

NextPipeline == Download \/ Segment \/ DetectCategory \/ RunExtractor \/ Unpack \/ Store

SpecPipeline == InitPipeline /\ [][NextPipeline]_vars

(***************************************************************************)
(* Properties of extract, detect_category and store_extraction.            *)
(***************************************************************************)
Entries(q) == {q[i] : i \in 1..Len(q)}

\* the error entries that name a stage of the pipeline
StageNamed ==
    {"Download error", "Keyframe extraction", "Audio extraction", "Analysis error",
     "Storage error"}

\* analyze_video came back with an error
AnalysisFailed == Len(analysis) >= 2 /\ analysis[2] # None

\* C15: extract returns success with no errors, or success with a record and
\* warnings, or failure with no record and a non-empty list of errors each of
\* which names the stage that failed; a failed category detection or a failed
\* extraction is an analysis-stage error.
C15_ThreeClasses ==
    ppc = "returned" =>
        \/ extract_result.success /\ extract_result.errors = <<>>
        \/ /\ extract_result.success
           /\ extract_result.extraction # None
           /\ extract_result.errors # <<>>
        \/ /\ ~extract_result.success
           /\ extract_result.extraction = None
           /\ extract_result.errors # <<>>
           /\ Entries(extract_result.errors) \subseteq StageNamed
           /\ AnalysisFailed => "Analysis error" \in Entries(extract_result.errors)

\* C16: store_extraction without a source_url, as extract calls it for a file,
\* returns a result and no error whenever the storage backend accepts the
\* request.
C16_StoresWithoutUrl ==
    (ppc = "returned" /\ extract_result.success /\ source_type = "file" /\ backend_accepts) =>
        /\ storage.error = None
        /\ storage.result # None
        /\ extract_result.stored

\* the trimmed lower-cased answer equals the label or contains it
Names(text, label) ==
    Lower(Strip(text)) = Spell(label) \/ Occurs(Spell(label), Lower(Strip(text)))

Labels == {categories[i] : i \in 1..Len(categories)}

\* what detect_category returned is right for the answer of the backend
JudgedByAnswer ==
    /\ detected.category # None =>
          /\ detected.category \in Labels
          /\ detected.error = None
          /\ answer.kind = "text"
          /\ Names(answer.text, detected.category)
    /\ (answer.kind # "text" \/ \A label \in Labels : ~Names(answer.text, label)) =>
          /\ detected.category = None
          /\ detected.error # None

\* C18 as stated: detect_category asks the backend exactly once, returns a label
\* only if the answer equals or contains it, and returns no category and an
\* error in every other case.
C18_ExactlyOneRequest ==
    detected # Pending => (generate_calls = 1 /\ JudgedByAnswer)

\* C18 amended: detect_category sends at most one generation request, none when
\* an upload raises first and exactly one otherwise; it returns a label only if
\* the answer equals or contains it, and no category and an error in every
\* other case.
C18_AtMostOneRequest ==
    detected # Pending =>
        /\ generate_calls = (IF answer.kind = "upload_raises" THEN 0 ELSE 1)
        /\ JudgedByAnswer

\* the answer names two categories; the one that comes first in the list is
\* returned
C18_Witness ==
    /\ detected.category = "travel"
    /\ answer.kind = "text"
    /\ Names(answer.text, "music")
    /\ Lower(Strip(answer.text)) # Spell("travel")
    /\ generate_calls = 1

\* C25: at the end of a successful extract the record's keyframes are the
\* keyframe list produced by segmentation, in the same order.
C25_KeyframesKept ==
    (ppc = "returned" /\ extract_result.success) =>
        record.keyframes = segmentation.keyframes

\* analyze_video has returned
Analyzed == analysis # <<>>

\* C26: in one analyze_video call the backend is asked to detect the category
\* at most once and never when a hint is supplied; exactly one category
\* extractor is invoked when the resolved category (the hint, or else the
\* detected category) is one of the six labels, and none otherwise.
C26_DetectOnceExtractOnce ==
    /\ generate_calls <= 1
    /\ preferred_category # "" => (generate_calls = 0 /\ detected = Pending)
    /\ extractor_calls <= 1
    /\ ~Analyzed => extractor_calls = 0
    /\ Analyzed =>
          LET category == IF preferred_category # "" THEN preferred_category
                          ELSE detected.category
          IN  extractor_calls = (IF category \in Labels THEN 1 ELSE 0)

\* a detected category whose extractor has run, and a hint whose extractor has
\* run without a detection
C26_Witness ==
    /\ Analyzed
    /\ extractor_calls = 1
    /\ \/ preferred_category = "" /\ generate_calls = 1 /\ detected.category \in Labels
       \/ preferred_category = "travel" /\ generate_calls = 0

\* the positions of the terminal notifications
Terminals == {i \in 1..Len(notifications) : notifications[i][1] \in {"done", "error"}}

\* C29: the reported progress values are non-decreasing; a terminal
\* notification is emitted exactly once, as the last notification of the
\* call: ('done', 100) if and only if the result has success = true,
\* otherwise ('error', 100).
C29_ProgressAndTerminal ==
    /\ \A i \in 1..Len(notifications), j \in 1..Len(notifications) :
          i < j => notifications[i][2] <= notifications[j][2]
    /\ Terminals \subseteq {Len(notifications)}
    /\ ppc # "returned" => (Terminals = {} /\ ~extract_result.success)
    /\ ppc = "returned" =>
          /\ Terminals = {Len(notifications)}
          /\ notifications[Len(notifications)] =
                 (IF extract_result.success THEN <<"done", 100>> ELSE <<"error", 100>>)

\* a successful call after all its notifications, and a call that failed
\* while unpacking the analysis
C29_Witness ==
    /\ ppc = "returned"
    /\ \/ extract_result.success /\ Len(notifications) = 8
       \/ "Unexpected error" \in Entries(extract_result.errors) /\ Len(notifications) = 6

(***************************************************************************)
(* The result registry REELS (reels.py, agent_actions.py).  An entry is    *)
(* written by the background job of submit_reel under a fresh reel id, and *)
(* by get_document_details and _ensure_document_cached under the id of a   *)
(* document of the storage backend.                                        *)
(***************************************************************************)
MaxSubmits == 3

ReelIds == <<"reel-1", "reel-2", "reel-3", "reel-4">>

DocumentIds == <<"doc-1", "doc-2", "doc-3", "doc-4">>

\* the entry run_extraction writes (reels.py lines 140-165)
ReelEntry(kind) ==
    [is_generic |-> kind = "generic",
     model_name |-> IF kind = "generic" THEN "GenericExtraction" ELSE "WorkoutRoutine",
     extraction |-> kind]

\* the entry written for a fetched document (reels.py lines 589-602,
\* agent_actions.py lines 156-169)
DocumentEntry ==
    [is_generic |-> TRUE, model_name |-> "GenericExtraction", extraction |-> "rebuilt"]

InitRegistry ==
    /\ REELS = <<>>
    /\ documents = <<>>
    /\ submitted = 0
    /\ TASKS = <<>>
    /\ jobs = <<>>
    /\ SanitizerIdle
    /\ ExtractorIdle
    /\ PipelineIdle
    /\ PlannerIdle

\* submit_reel with its background job run_extraction: the pipeline fails, or
\* returns a strict or a generic record, stored by the backend or not
SubmitReel ==
    /\ submitted < MaxSubmits
    /\ submitted' = submitted + 1
    /\ \/ UNCHANGED <<REELS, documents>>
       \/ \E kind \in {"strict", "generic"}, stored \in BOOLEAN :
             /\ REELS' = REELS @@ (ReelIds[submitted + 1] :> ReelEntry(kind))
             /\ documents' = IF stored
                             THEN documents @@ (DocumentIds[submitted + 1] :> kind)
                             ELSE documents
    /\ UNCHANGED <<TASKS, jobs, sanitizer_vars, extractor_vars, pipeline_vars, planner_vars>>

\* get_document_details(document_id) for a document the backend holds
GetDocumentDetails ==
    /\ \E document_id \in DOMAIN documents :
          REELS' = (document_id :> DocumentEntry) @@ REELS
    /\ UNCHANGED <<documents, submitted, TASKS, jobs, sanitizer_vars, extractor_vars, pipeline_vars,
                   planner_vars>>

\* _ensure_document_cached(document_id), called by the agent plan endpoints,
\* for a document that is not in the registry
EnsureDocumentCached ==
    /\ \E document_id \in DOMAIN documents \ DOMAIN REELS :
          REELS' = REELS @@ (document_id :> DocumentEntry)
    /\ UNCHANGED <<documents, submitted, TASKS, jobs, sanitizer_vars, extractor_vars, pipeline_vars,
                   planner_vars>>

NextRegistry == SubmitReel \/ GetDocumentDetails \/ EnsureDocumentCached

SpecRegistry == InitRegistry /\ [][NextRegistry]_vars

\* the kind of the record an entry stands for: the record of the background
\* job, or the record stored in the document
RecordKind(id) == IF id \in DOMAIN documents THEN documents[id] ELSE REELS[id].extraction

\* C17: the is_generic flag of every entry of REELS is true exactly when the
\* record it stands for was produced by the fallback path.
C17_FlagMatchesRecord ==
    \A id \in DOMAIN REELS : REELS[id].is_generic <=> RecordKind(id) = "generic"

(***************************************************************************)
(* The tasks of submit_reel (reels.py lines 85-184).  The background job   *)
(* run_extraction is a plain function, run on a worker thread after the    *)
(* response was sent: its updates of TASKS interleave with those of other  *)
(* jobs and with get_status, which reads the record as it is.              *)
(***************************************************************************)
MaxTasks == 2

\* the notifications of extract in program order (main.py lines 75-145)
Stages ==
    << <<"downloading", 10>>, <<"downloading", 30>>, <<"segmenting", 40>>,
       <<"segmenting", 60>>, <<"analyzing", 70>>, <<"analyzing", 85>>, <<"storing", 90>> >>

\* the sequences of notifications of one extract call: a failed download, a
\* failed analysis, a success
ExtractTraces ==
    {SubSeq(Stages, 1, 1) \o << <<"error", 100>> >>,
     SubSeq(Stages, 1, 5) \o << <<"error", 100>> >>,
     Stages \o << <<"done", 100>> >>}

\* reels.py lines 99-105
QueuedTask ==
    [status |-> "queued", progress |-> 0, stage |-> "queued", reel_id |-> None,
     error |-> None]

InitTasks ==
    /\ TASKS = <<>>
    /\ jobs = <<>>
    /\ REELS = <<>>
    /\ documents = <<>>
    /\ submitted = 0
    /\ SanitizerIdle
    /\ ExtractorIdle
    /\ PipelineIdle
    /\ PlannerIdle

\* _update_task(task_id, **fields)
_update_task(task_id, fields) ==
    TASKS' = IF task_id \in DOMAIN TASKS
             THEN [TASKS EXCEPT ![task_id] = Update(@, fields)]
             ELSE TASKS

JobAt(task_id, position) == task_id \in DOMAIN jobs /\ jobs[task_id].pc = position

Goes(task_id, position) == jobs' = [jobs EXCEPT ![task_id].pc = position]

\* submit_reel: the task is created and the job handed to background_tasks
SubmitTask ==
    /\ Len(TASKS) < MaxTasks
    /\ TASKS' = Append(TASKS, QueuedTask)
    /\ jobs' = Append(jobs, [pc |-> "scheduled", pending |-> <<>>, success |-> FALSE])
    /\ UNCHANGED <<REELS, documents, submitted, sanitizer_vars, extractor_vars,
                   pipeline_vars, planner_vars>>

\* run_extraction, line 109
StartJob(task_id) ==
    /\ JobAt(task_id, "scheduled")
    /\ _update_task(task_id,
                    [status |-> "processing", stage |-> "downloading", progress |-> 10])
    /\ Goes(task_id, "constructing")
    /\ UNCHANGED <<REELS, documents, submitted, sanitizer_vars, extractor_vars,
                   pipeline_vars, planner_vars>>

\* line 111: ReelExtractor() builds the services (main.py lines 22-30), or
\* one of their constructors raises and the exception leaves the job
Construct(task_id) ==
    /\ JobAt(task_id, "constructing")
    /\ \/ \E trace \in ExtractTraces :
             jobs' = [jobs EXCEPT ![task_id] =
                         [pc |-> "extracting", pending |-> trace,
                          success |-> trace[Len(trace)][1] = "done"]]
       \/ Goes(task_id, "raised")
    /\ UNCHANGED <<TASKS, REELS, documents, submitted, sanitizer_vars, extractor_vars,
                   pipeline_vars, planner_vars>>

\* lines 113-125: extract reports one stage through progress_callback; after
\* its terminal notification it returns
Progress(task_id) ==
    /\ JobAt(task_id, "extracting")
    /\ LET pair == Head(jobs[task_id].pending)
       IN  _update_task(task_id, [stage |-> pair[1], progress |-> pair[2]])
    /\ jobs' = [jobs EXCEPT ![task_id].pending = Tail(@),
                            ![task_id].pc = IF Len(jobs[task_id].pending) = 1
                                            THEN "extracted" ELSE @]
    /\ UNCHANGED <<REELS, documents, submitted, sanitizer_vars, extractor_vars,
                   pipeline_vars, planner_vars>>

\* lines 127-135: the result has no success
FailTask(task_id) ==
    /\ JobAt(task_id, "extracted")
    /\ ~jobs[task_id].success
    /\ _update_task(task_id,
                    [status |-> "failed", stage |-> "error", progress |-> 100,
                     error |-> "errors"])
    /\ Goes(task_id, "finished")
    /\ UNCHANGED <<REELS, documents, submitted, sanitizer_vars, extractor_vars,
                   pipeline_vars, planner_vars>>

\* lines 137-165: the entry of the registry is written
Register(task_id) ==
    /\ JobAt(task_id, "extracted")
    /\ jobs[task_id].success
    /\ \E kind \in {"strict", "generic"} :
          REELS' = REELS @@ (ReelIds[task_id] :> ReelEntry(kind))
    /\ Goes(task_id, "registered")
    /\ UNCHANGED <<TASKS, documents, submitted, sanitizer_vars, extractor_vars,
                   pipeline_vars, planner_vars>>

\* line 167
CompleteTask(task_id) ==
    /\ JobAt(task_id, "registered")
    /\ _update_task(task_id,
                    [status |-> "completed", stage |-> "done", progress |-> 100,
                     reel_id |-> ReelIds[task_id]])
    /\ Goes(task_id, "finished")
    /\ UNCHANGED <<REELS, documents, submitted, sanitizer_vars, extractor_vars,
                   pipeline_vars, planner_vars>>

\* one step of the background job of a task
run_extraction(task_id) ==
    \/ StartJob(task_id)
    \/ Construct(task_id)
    \/ Progress(task_id)
    \/ FailTask(task_id)
    \/ Register(task_id)
    \/ CompleteTask(task_id)

NextTasks == SubmitTask \/ \E task_id \in 1..MaxTasks : run_extraction(task_id)

SpecTasks == InitTasks /\ [][NextTasks]_vars

\* the worker thread of a started job keeps running
SpecTasksFair ==
    SpecTasks /\ \A task_id \in 1..MaxTasks : WF_vars(run_extraction(task_id))

Started(task_id) == task_id \in DOMAIN jobs /\ jobs[task_id].pc # "scheduled"

Settled(task_id) ==
    task_id \in DOMAIN TASKS /\ TASKS[task_id].status \in {"completed", "failed"}

\* C27: every task whose background job is started eventually has status
\* 'completed' or 'failed', whichever step of the job fails.
C27_EveryTaskSettles ==
    \A task_id \in 1..MaxTasks : Started(task_id) ~> Settled(task_id)

\* C28: in every task state get_status can observe, stage 'done' implies
\* status 'completed' with a reel_id present in REELS, and stage 'error'
\* implies status 'failed' with a non-empty error.
C28_StageAgreesWithStatus ==
    \A task_id \in DOMAIN TASKS :
       LET task == TASKS[task_id]
       IN  /\ task.stage = "done" =>
                 (task.status = "completed" /\ task.reel_id \in DOMAIN REELS)
           /\ task.stage = "error" =>
                 (task.status = "failed" /\ task.error \notin {None, ""})

\* ---------------------------------------------------------------------------
\* Plan generation: _call_gemini_for_plan (agent_actions.py lines 318-343)
\* with the model selection of _get_gemini_model (gemini_model_helper.py)
\* ---------------------------------------------------------------------------

\* gemini_model_helper.py lines 37-42
pro_first ==
    <<"models/gemini-2.5-pro", "models/gemini-2.5-flash", "models/gemini-2.0-flash-001",
      "models/gemini-2.0-flash">>

\* a list that does not skip the higher tier
WithPro == pro_first

\* gemini_model_helper.py lines 43-47
flash_only ==
    <<"models/gemini-2.5-flash", "models/gemini-2.0-flash-001", "models/gemini-2.0-flash">>

\* line 48
model_names(allowed) == IF allowed THEN pro_first ELSE flash_only

HigherTier(name) == name = "models/gemini-2.5-pro"

\* no exception: the empty message
NoError == <<>>

\* str(exc) of the exceptions of the remote API, as sequences of words
ApiErrors ==
    {<<"429", "Resource has been exhausted">>, <<"exceeded your current", "quota">>,
     <<"404", "is not found">>, <<"503", "The service is unavailable">>}

\* the text of the HTTPException of lines 65-71, which ends with the last error
SelectionError(names, last) ==
    <<"500", "Unable to initialize any Gemini model. Tried">> \o names
        \o <<"Last error">> \o last

\* agent_actions.py line 334: the message carries a quota or rate-limit signal
QuotaSignal(msg) ==
    \E i \in 1..Len(msg) : msg[i] \in {"ResourceExhausted", "quota", "429"}

Attempt(name, request, error) ==
    [model |-> name, request |-> request, error |-> error, allow_pro |-> allow_pro]

InitPlanner ==
    /\ plan_pc = "select"
    /\ allow_pro = TRUE
    /\ candidate = 1
    /\ last_error = NoError
    /\ attempts = <<>>
    /\ plan_status = 0
    /\ SanitizerIdle
    /\ ExtractorIdle
    /\ PipelineIdle
    /\ RegistryIdle

\* the except clause of lines 332-343 for the first attempt; a failure of the
\* second attempt is raised inside the except clause and leaves the function
Except(msg) ==
    IF allow_pro
    THEN IF QuotaSignal(msg)
         THEN /\ plan_pc' = "select"
              /\ allow_pro' = FALSE
              /\ candidate' = 1
              /\ last_error' = NoError
              /\ plan_status' = plan_status
         ELSE /\ plan_pc' = "done"
              /\ plan_status' = 502
              /\ UNCHANGED <<allow_pro, candidate, last_error>>
    ELSE /\ plan_pc' = "done"
         /\ plan_status' = 500
         /\ UNCHANGED <<allow_pro, candidate, last_error>>

\* gemini_model_helper.py lines 53-62: the smoke test of one candidate
Ping ==
    /\ plan_pc = "select"
    /\ candidate <= Len(model_names(allow_pro))
    /\ \E error \in ApiErrors \cup {NoError} :
          /\ attempts' = Append(attempts,
                                Attempt(model_names(allow_pro)[candidate], "ping", error))
          /\ IF error = NoError
             THEN plan_pc' = "generate" /\ UNCHANGED <<candidate, last_error>>
             ELSE /\ candidate' = candidate + 1
                  /\ last_error' = error
                  /\ plan_pc' = plan_pc
    /\ UNCHANGED <<allow_pro, plan_status, sanitizer_vars, extractor_vars, pipeline_vars,
                   registry_vars>>

\* gemini_model_helper.py lines 64-71: no candidate passed the smoke test
SelectionFails ==
    /\ plan_pc = "select"
    /\ candidate > Len(model_names(allow_pro))
    /\ Except(SelectionError(model_names(allow_pro), last_error))
    /\ UNCHANGED <<attempts, sanitizer_vars, extractor_vars, pipeline_vars, registry_vars>>

\* agent_actions.py lines 331 and 337: the plan request to the selected model
Generate ==
    /\ plan_pc = "generate"
    /\ \E error \in ApiErrors \cup {NoError} :
          /\ attempts' = Append(attempts,
                                Attempt(model_names(allow_pro)[candidate], "plan", error))
          /\ IF error = NoError
             THEN /\ plan_pc' = "responded"
                  /\ UNCHANGED <<allow_pro, candidate, last_error, plan_status>>
             ELSE Except(error)
    /\ UNCHANGED <<sanitizer_vars, extractor_vars, pipeline_vars, registry_vars>>

NextPlanner == Ping \/ SelectionFails \/ Generate

SpecPlanner == InitPlanner /\ [][NextPlanner]_vars

\* the attempts of the selection with, or without, the higher tier
Round(allowed) == SelectSeq(attempts, LAMBDA a : a.allow_pro = allowed)

Failed(a) == a.error # NoError

LowerTierAttempts == {i \in 1..Len(attempts) : ~HigherTier(attempts[i].model)}

FirstFailure ==
    LET first == Round(TRUE) IN
    IF first = <<>> THEN NoError
    ELSE LET a == first[Len(first)] IN
         IF ~Failed(a) THEN NoError
         ELSE IF a.request = "plan" THEN a.error
         ELSE IF Len(first) = Len(pro_first) THEN SelectionError(pro_first, a.error)
         ELSE NoError

\* the attempts of one selection follow the list: each smoke test but the
\* first follows a failed smoke test of the previous variant, whatever the
\* failure, and the plan request goes once to the variant that passed
FollowsList(round, names) ==
    \A i \in 1..Len(round) :
       LET pings == Cardinality({j \in 1..i : round[j].request = "ping"}) IN
       /\ pings <= Len(names)
       /\ round[i].model = names[pings]
       /\ i > 1 => round[i - 1].request = "ping"
       /\ round[i].request = "ping" => (i > 1 => Failed(round[i - 1]))
       /\ round[i].request = "plan" => (i > 1 /\ ~Failed(round[i - 1]))

====
